---- MODULE Spec2Model ----
(***************************************************************************)
(* Model of the unified-diff patch engine                                  *)
(* (src/hslu/dlm03/util/unified_diff.py): UnifiedDiffHunk.verify / apply / *)
(* find and UnifiedDiff.apply over an in-memory list of lines; of the      *)
(* RateLimiter (src/hslu/dlm03/util/ratelimit.py) and of the ToolManager   *)
(* (src/hslu/dlm03/common/tools.py).                                       *)
(*                                                                         *)
(* Lines are strings; a buffer is a sequence of lines (1-based here,       *)
(* 0-based in the source, so Python index k is element k+1).               *)
(***************************************************************************)
EXTENDS Integers, Sequences, FiniteSets, TLC

VARIABLES
  diff,      \* the UnifiedDiff object: [from_file, to_file, hunks]
  content,   \* the caller-supplied buffer (list[str]) that apply mutates
  strict,    \* the strict keyword argument of UnifiedDiff.apply
  hunks,     \* local `hunks` of UnifiedDiff.apply (relocated when not strict)
  offset,    \* local `offset` of UnifiedDiff.apply
  i,         \* number of iterations of the apply loop completed in this call
  pc,        \* apply: "ready" | "loop" | "returned" | "raised";
             \* parsing: "text" | "parsed" | "serialized" | "reparsed" | "hunk"
  exc,       \* the exception that left the call, or NoExc
  entry,     \* the buffer as it was when the current apply call started
  calls,     \* number of UnifiedDiff.apply calls made on this buffer
  text,      \* the patch text about to be parsed (a sequence of characters)
  src,       \* the patch text first given to the parser
  first,     \* the UnifiedDiff parsed from src
  hunk,      \* the result of UnifiedDiffHunk.from_string(text)
  now,       \* RateLimiter: time.monotonic(), in seconds
  rl_calls,  \* RateLimiter._calls: the deque of grant times
  rl_lock,   \* RateLimiter._lock: the thread holding it, 0 when free
  rl_rpm2,   \* RateLimiter._rpm, a float, counted in halves (3 is rpm 1.5)
  tpc,       \* per thread: "idle" | "loop" | "locked" | "sleeping"
  wake,      \* per thread: the time at which its time.sleep ends
  started,   \* per thread: number of acquire() calls it has made
  grants,    \* history: the times at which acquire() granted a permit
  allowed,   \* ToolManager._allowed_tools: [is_none, names], None or a set
  sessions,  \* number of MCP sessions opened by the session factory
  forwarded, \* the tool names passed to session.call_tool, in order
  listed,    \* the names of the tools the last ToolManager.tools() returned
  outputs,   \* the result of the last ToolManager.__call__
  tcalls     \* number of ToolManager calls made

applyVars == <<content, strict, hunks, offset, i, entry, calls>>
parseVars == <<text, src, first, hunk>>
rateVars == <<now, rl_calls, rl_lock, rl_rpm2, tpc, wake, started, grants>>
toolVars == <<allowed, sessions, forwarded, listed, outputs, tcalls>>
auxVars == <<rateVars, toolVars>>
vars == <<diff, pc, exc, applyVars, parseVars, auxVars>>

----------------------------------------------------------------------------
(* Bounds of the model.                                                    *)
MaxContent == 2     \* longest initial buffer
MaxLine    == 2     \* largest declared from_line
MaxBefore  == 2     \* longest before list of a hunk
MaxAfter   == 2     \* longest after list of a hunk
MaxCalls   == 2     \* apply calls on one buffer (the second is a re-apply)

Lines == {"a", "b"}

Max(x, y) == IF x >= y THEN x ELSE y
Min(x, y) == IF x <= y THEN x ELSE y

SeqUpTo(S, n) == UNION {[1..k -> S] : k \in 0..n}

----------------------------------------------------------------------------
(* Python list slicing, content[start:stop] with step 1: a negative index  *)
(* counts from the end, and indices are clamped to 0..len.                 *)
PyIndex(x, n) == IF x < 0 THEN Max(x + n, 0) ELSE Min(x, n)

PySlice(s, start, stop) ==
  LET lo == PyIndex(start, Len(s))
      hi == PyIndex(stop, Len(s))
  IN IF lo < hi THEN SubSeq(s, lo + 1, hi) ELSE <<>>

(* content[start:stop] = v                                                 *)
PySetSlice(s, start, stop, v) ==
  LET lo == PyIndex(start, Len(s))
      hi == Max(PyIndex(stop, Len(s)), lo)
  IN SubSeq(s, 1, lo) \o v \o SubSeq(s, hi + 1, Len(s))

----------------------------------------------------------------------------
(* Exceptions.                                                             *)
NoExc == [type |-> "None", msg |-> "none"]
Raise(t, m) == [type |-> t, msg |-> m]

UnifiedDiffError(m) == Raise("UnifiedDiffError", m)

(* The dataclass constructor: stores its arguments, checks nothing.        *)
UnifiedDiffHunk(fl, fc, tl, tc, b, a) ==
  [from_line |-> fl, from_count |-> fc, to_line |-> tl, to_count |-> tc,
   before |-> b, after |-> a]

UnifiedDiff(ff, tf, hs) == [from_file |-> ff, to_file |-> tf, hunks |-> hs]

(* Placeholders for "no object yet", and Python's None.                    *)
None   == <<"None">>
NoHunk == UnifiedDiffHunk(0, 0, 0, 0, <<>>, <<>>)
NoDiff == UnifiedDiff(None, None, <<>>)

----------------------------------------------------------------------------
(* UnifiedDiffHunk.verify and UnifiedDiffHunk.apply                        *)

(* start_index = from_line, minus one when from_count > 0; plus offset.    *)
(* The start index taken one below from_line for every hunk.               *)
StartOf_MinusOne(self, off) == self.from_line - 1 + off

StartOf(self, off) ==
  (IF self.from_count > 0 THEN self.from_line - 1 ELSE self.from_line) + off

EndOf(self, off) == StartOf(self, off) + self.from_count

(* difflib.unified_diff(a, b, n=0) yields no line exactly when a = b.      *)
BeforeDiffIsEmpty(slice, before) == slice = before

(* verify without the check of to_count.                                   *)
HunkVerify_NoAfterCount(self, cont, off) ==
  IF Len(self.before) # self.from_count
  THEN UnifiedDiffError("expected lines before")
  ELSE IF ~BeforeDiffIsEmpty(PySlice(cont, StartOf(self, off), EndOf(self, off)),
                             self.before)
  THEN UnifiedDiffError("content does not match")
  ELSE NoExc

(* verify that compares the counts only, never the content.                *)
HunkVerify_CountsOnly(self, cont, off) ==
  IF Len(self.before) # self.from_count
  THEN UnifiedDiffError("expected lines before")
  ELSE IF Len(self.after) # self.to_count
  THEN UnifiedDiffError("expected lines after")
  ELSE NoExc

HunkVerify(self, cont, off) ==
  IF Len(self.before) # self.from_count
  THEN UnifiedDiffError("expected lines before")
  ELSE IF Len(self.after) # self.to_count
  THEN UnifiedDiffError("expected lines after")
  ELSE IF ~BeforeDiffIsEmpty(PySlice(cont, StartOf(self, off), EndOf(self, off)),
                             self.before)
  THEN UnifiedDiffError("content does not match")
  ELSE NoExc

(* apply that returns 0 instead of to_count - from_count.                  *)
HunkApply_NoDelta(self, cont, off) ==
  LET v == HunkVerify(self, cont, off)
  IN IF v # NoExc
     THEN [exc |-> v, content |-> cont, ret |-> 0]
     ELSE [exc |-> NoExc,
           content |-> PySetSlice(cont, StartOf(self, off), EndOf(self, off),
                                  self.after),
           ret |-> 0]

(* apply that replaces the slice before it verifies.                       *)
HunkApply_ReplaceFirst(self, cont, off) ==
  LET v == HunkVerify(self, cont, off)
      c == PySetSlice(cont, StartOf(self, off), EndOf(self, off), self.after)
  IN IF v # NoExc
     THEN [exc |-> v, content |-> c, ret |-> 0]
     ELSE [exc |-> NoExc, content |-> c, ret |-> self.to_count - self.from_count]

(* apply that returns the new cumulative offset, offset + to_count -       *)
(* from_count, instead of the delta.                                       *)
HunkApply_ReturnsNewOffset(self, cont, off) ==
  LET v == HunkVerify(self, cont, off)
  IN IF v # NoExc
     THEN [exc |-> v, content |-> cont, ret |-> 0]
     ELSE [exc |-> NoExc,
           content |-> PySetSlice(cont, StartOf(self, off), EndOf(self, off),
                                  self.after),
           ret |-> off + self.to_count - self.from_count]

(* Result of hunk.apply(content, offset): the exception (if verify raised),*)
(* the buffer afterwards and the returned offset delta.                    *)
HunkApply(self, cont, off) ==
  LET v == HunkVerify(self, cont, off)
  IN IF v # NoExc
     THEN [exc |-> v, content |-> cont, ret |-> 0]
     ELSE [exc |-> NoExc,
           content |-> PySetSlice(cont, StartOf(self, off), EndOf(self, off),
                                  self.after),
           ret |-> self.to_count - self.from_count]

----------------------------------------------------------------------------
(* UnifiedDiffHunk.find: difflib.SequenceMatcher(None, lines, before)      *)
(* .find_longest_match(0, len(lines), 0, len(before)).                     *)

Elems(s) == {s[k] : k \in 1..Len(s)}

(* SequenceMatcher's autojunk heuristic (on by default): when the second   *)
(* sequence has at least 200 elements, an element occurring more than      *)
(* len // 100 + 1 times is "popular" and is never used to start a match.   *)
Popular(b) ==
  IF Len(b) >= 200
  THEN {e \in Elems(b) :
          Cardinality({k \in 1..Len(b) : b[k] = e}) > (Len(b) \div 100) + 1}
  ELSE {}

(* Length of the run of equal, non-popular elements ending at a[x], b[y].  *)
RECURSIVE RunLen(_, _, _, _, _)
RunLen(a, b, pop, x, y) ==
  IF x < 1 \/ y < 1 THEN 0
  ELSE IF a[x] = b[y] /\ b[y] \notin pop
       THEN 1 + RunLen(a, b, pop, x - 1, y - 1)
       ELSE 0

(* Number of equal elements going backwards from a[x], b[y] (the first     *)
(* extension loop of find_longest_match; no element is junk).              *)
ExtendBack(a, b, x, y) ==
  LET m == Max(Min(x, y), 0)
  IN CHOOSE n \in 0..m :
       /\ \A k \in 0..(n - 1) : a[x - k] = b[y - k]
       /\ n < m => a[x - n] # b[y - n]

(* Number of equal elements going forwards from a[x], b[y].                *)
ExtendFwd(a, b, x, y) ==
  LET m == Max(Min(Len(a) - x + 1, Len(b) - y + 1), 0)
  IN CHOOSE n \in 0..m :
       /\ \A k \in 0..(n - 1) : a[x + k] = b[y + k]
       /\ n < m => a[x + n] # b[y + n]

SetMin(S) == CHOOSE x \in S : \A y \in S : x <= y
SetMax(S) == CHOOSE x \in S : \A y \in S : x >= y

(* The Match(a, b, size) triple, a and b 0-based as in difflib: the longest*)
(* block of non-popular equal elements, the one starting earliest in a     *)
(* (then earliest in b) among the longest, then extended on both sides by  *)
(* equal elements.                                                         *)
FindLongestMatch(a, b) ==
  LET pop   == Popular(b)
      pairs == (1..Len(a)) \X (1..Len(b))
      run   == [p \in pairs |-> RunLen(a, b, pop, p[1], p[2])]
      K     == IF pairs = {} THEN 0 ELSE SetMax({run[p] : p \in pairs})
      cand  == {p \in pairs : run[p] = K}
      ex    == SetMin({p[1] : p \in cand})
      ey    == SetMin({p[2] : p \in {q \in cand : q[1] = ex}})
      si    == IF K = 0 THEN 1 ELSE ex - K + 1
      sj    == IF K = 0 THEN 1 ELSE ey - K + 1
      back  == ExtendBack(a, b, si - 1, sj - 1)
      fwd   == ExtendFwd(a, b, si + K, sj + K)
  IN [a |-> si - 1 - back, b |-> sj - 1 - back, size |-> K + back + fwd]

(* find that accepts any non-empty match instead of a complete one.        *)
HunkFind_AcceptPartial(self, lines) ==
  LET match == FindLongestMatch(lines, self.before)
      off   == (match.a + 1) - self.from_line
  IN IF match.size = 0 /\ self.before # <<>>
     THEN [exc |-> UnifiedDiffError("Could not find hunk"), hunk |-> self]
     ELSE [exc |-> NoExc,
           hunk |-> UnifiedDiffHunk(self.from_line + off, Len(self.before),
                                    self.to_line + off, Len(self.after),
                                    self.before, self.after)]

(* find that checks the match but keeps the declared line numbers.         *)
HunkFind_NoShift(self, lines) ==
  LET match == FindLongestMatch(lines, self.before)
  IN IF match.size # Len(self.before)
     THEN [exc |-> UnifiedDiffError("Could not find hunk"), hunk |-> self]
     ELSE [exc |-> NoExc,
           hunk |-> UnifiedDiffHunk(self.from_line, Len(self.before),
                                    self.to_line, Len(self.after),
                                    self.before, self.after)]

(* find that numbers to_line from the match as it does from_line.          *)
HunkFind_ToLineFromMatch(self, lines) ==
  LET match == FindLongestMatch(lines, self.before)
  IN IF match.size # Len(self.before)
     THEN [exc |-> UnifiedDiffError("Could not find hunk"), hunk |-> self]
     ELSE [exc |-> NoExc,
           hunk |-> UnifiedDiffHunk(match.a + 1, Len(self.before),
                                    match.a + 1, Len(self.after),
                                    self.before, self.after)]

(* find that leaves a hunk with empty before at its declared from_line.    *)
HunkFind_KeepsInsertionPoint(self, lines) ==
  LET match == FindLongestMatch(lines, self.before)
      off   == IF self.before = <<>> THEN 0 ELSE (match.a + 1) - self.from_line
  IN IF match.size # Len(self.before)
     THEN [exc |-> UnifiedDiffError("Could not find hunk"), hunk |-> self]
     ELSE [exc |-> NoExc,
           hunk |-> UnifiedDiffHunk(self.from_line + off, Len(self.before),
                                    self.to_line + off, Len(self.after),
                                    self.before, self.after)]

(* find that passes the declared counts on to the hunk it returns.         *)
HunkFind_KeepsCounts(self, lines) ==
  LET match == FindLongestMatch(lines, self.before)
      off   == (match.a + 1) - self.from_line
  IN IF match.size # Len(self.before)
     THEN [exc |-> UnifiedDiffError("Could not find hunk"), hunk |-> self]
     ELSE [exc |-> NoExc,
           hunk |-> UnifiedDiffHunk(self.from_line + off, self.from_count,
                                    self.to_line + off, self.to_count,
                                    self.before, self.after)]

(* Result of hunk.find(lines): the exception, or the relocated hunk.       *)
HunkFind(self, lines) ==
  LET match == FindLongestMatch(lines, self.before)
      off   == (match.a + 1) - self.from_line
  IN IF match.size # Len(self.before)
     THEN [exc |-> UnifiedDiffError("Could not find hunk"), hunk |-> self]
     ELSE [exc |-> NoExc,
           hunk |-> UnifiedDiffHunk(self.from_line + off, Len(self.before),
                                    self.to_line + off, Len(self.after),
                                    self.before, self.after)]

(* The comprehension with a find that gives up quietly: a hunk that is not *)
(* found is kept as declared and the loop is entered.                      *)
FindAll_KeepsUnfound(hs, cont) ==
  [exc |-> NoExc, hunks |-> [k \in 1..Len(hs) |-> HunkFind(hs[k], cont).hunk]]

(* [hunk.find(content) for hunk in self.hunks]: the first find that raises *)
(* ends the comprehension.                                                 *)
FindAll(hs, cont) ==
  LET res  == [k \in 1..Len(hs) |-> HunkFind(hs[k], cont)]
      bad  == {k \in 1..Len(hs) : res[k].exc # NoExc}
  IN IF bad # {}
     THEN [exc |-> res[SetMin(bad)].exc, hunks |-> <<>>]
     ELSE [exc |-> NoExc, hunks |-> [k \in 1..Len(hs) |-> res[k].hunk]]

(* The loop of UnifiedDiff.apply from hunk k on, run to its end: the       *)
(* exception that ended it (if any) and the buffer it leaves.  ApplyRest   *)
(* continues after hunk k's apply gave r.                                  *)
RECURSIVE ApplyLoop(_, _, _, _)
RECURSIVE ApplyRest(_, _, _, _)
ApplyRest(hs, k, r, off) ==
  IF r.exc # NoExc
  THEN [exc |-> r.exc, content |-> r.content]
  ELSE ApplyLoop(hs, k + 1, r.content, off + r.ret)

ApplyLoop(hs, k, cont, off) ==
  IF k > Len(hs) THEN [exc |-> NoExc, content |-> cont]
  ELSE ApplyRest(hs, k, HunkApply(hs[k], cont, off), off)

(* The loop over the relocated hunks f, unless relocating raised.          *)
ApplyFound(f, cont) ==
  IF f.exc # NoExc
  THEN [exc |-> f.exc, content |-> cont]
  ELSE ApplyLoop(f.hunks, 1, cont, 0)

(* UnifiedDiff.apply(content, strict=st) as one call.                      *)
DiffApply(d, cont, st) ==
  IF st
  THEN ApplyLoop(d.hunks, 1, cont, 0)
  ELSE ApplyFound(FindAll(d.hunks, cont), cont)

----------------------------------------------------------------------------
(* Inputs: hunks and diffs as the constructors take them.                  *)

(* Hunks whose counts agree with their lists; to_line = from_line as in    *)
(* Edit.to_unified_diff_hunk.                                              *)
WellFormedHunks(maxB, maxA) ==
  {UnifiedDiffHunk(fl, Len(b), fl, Len(a), b, a) :
     fl \in 0..MaxLine, b \in SeqUpTo(Lines, maxB), a \in SeqUpTo(Lines, maxA)}

(* Hunks whose declared counts disagree with their lists.                  *)
MiscountedHunks ==
  {h \in {UnifiedDiffHunk(fl, fc, fl, tc, b, a) :
            fl \in 0..1, fc \in 0..MaxBefore, tc \in 0..MaxAfter,
            b \in SeqUpTo({"a"}, 1), a \in SeqUpTo({"a"}, 1)} :
     h.from_count # Len(h.before) \/ h.to_count # Len(h.after)}

(* The hunks of a two-hunk diff: shorter, removing "a" lines and adding     *)
(* "b" lines.                                                              *)
SmallHunks ==
  {UnifiedDiffHunk(fl, Len(b), fl, Len(a), b, a) :
     fl \in 0..MaxLine,
     b \in SeqUpTo({"a"}, MaxBefore - 1),
     a \in SeqUpTo({"b"}, MaxAfter - 1)}

(* Single hunks of a file whose earlier hunks added a line: to_line is one *)
(* more than from_line.                                                    *)
ShiftedHunks ==
  {UnifiedDiffHunk(fl, Len(b), fl + 1, Len(a), b, a) :
     fl \in 0..MaxLine, b \in SeqUpTo({"a"}, 1), a \in SeqUpTo({"b"}, 1)}

FileA == <<"a", "/", "f">>
FileB == <<"b", "/", "f">>

DiffSet ==
  {UnifiedDiff(FileA, FileB, hs) :
     hs \in {<<>>}
        \cup {<<h>> : h \in WellFormedHunks(MaxBefore, MaxAfter) \cup MiscountedHunks
                              \cup ShiftedHunks}
        \cup {<<h1, h2>> : h1 \in SmallHunks, h2 \in SmallHunks}}

(* A hunk of 200 equal lines, long enough for the autojunk heuristic.      *)
LongBefore == [k \in 1..200 |-> "a"]
LongDiff == UnifiedDiff(FileA, FileB,
                        <<UnifiedDiffHunk(2, 200, 2, 1, LongBefore, <<"b">>)>>)
LongContents == {LongBefore, <<"b">> \o LongBefore, LongBefore \o <<"a">>,
                 <<"b">> \o LongBefore \o <<"a">>}

----------------------------------------------------------------------------
(* The rate limiter and the tool manager before anything has used them.    *)
MaxThreads == 2     \* threads that call RateLimiter.acquire
Threads == 1..MaxThreads

RateIdle ==
  /\ now = 0
  /\ rl_calls = <<>>
  /\ rl_lock = 0
  /\ tpc = [t \in Threads |-> "idle"]
  /\ wake = [t \in Threads |-> 0]
  /\ started = [t \in Threads |-> 0]
  /\ grants = <<>>

(* allowed_tools=None and allowed_tools=S.                                 *)
AllowAll == [is_none |-> TRUE, names |-> {}]
AllowOnly(S) == [is_none |-> FALSE, names |-> S]

ToolsIdle ==
  /\ sessions = 0
  /\ forwarded = <<>>
  /\ listed = {}
  /\ outputs = <<>>
  /\ tcalls = 0

PatchIdle ==
  /\ diff = NoDiff /\ pc = "idle" /\ exc = NoExc
  /\ content = <<>> /\ entry = <<>> /\ strict = TRUE
  /\ hunks = <<>> /\ offset = 0 /\ i = 0 /\ calls = 0
  /\ text = <<>> /\ src = <<>> /\ first = NoDiff /\ hunk = NoHunk

----------------------------------------------------------------------------
Init ==
  /\ \/ diff \in DiffSet /\ content \in SeqUpTo(Lines, MaxContent)
     \/ diff = LongDiff /\ content \in LongContents
  /\ strict \in BOOLEAN
  /\ hunks = <<>>
  /\ offset = 0
  /\ i = 0
  /\ pc = "ready"
  /\ exc = NoExc
  /\ entry = content
  /\ calls = 0
  /\ text = <<>> /\ src = <<>> /\ first = NoDiff /\ hunk = NoHunk
  /\ RateIdle /\ rl_rpm2 = 2
  /\ ToolsIdle /\ allowed = AllowAll

(* apply that keeps the relocated hunks in the diff (self.hunks = ...).    *)
ApplyCall_StoresRelocated ==
  /\ pc \in {"ready", "returned"}
  /\ calls < MaxCalls
  /\ calls' = calls + 1
  /\ entry' = content
  /\ offset' = 0
  /\ i' = 0
  /\ IF strict
     THEN /\ hunks' = diff.hunks
          /\ pc' = "loop"
          /\ exc' = NoExc
          /\ diff' = diff
     ELSE LET r == FindAll(diff.hunks, content)
          IN /\ hunks' = r.hunks
             /\ exc' = r.exc
             /\ pc' = IF r.exc = NoExc THEN "loop" ELSE "raised"
             /\ diff' = IF r.exc = NoExc THEN [diff EXCEPT !.hunks = r.hunks]
                        ELSE diff
  /\ UNCHANGED <<content, strict, parseVars, auxVars>>

(* apply that relocates the hunks in strict mode too.                      *)
ApplyCall_AlwaysRelocate ==
  /\ pc \in {"ready", "returned"}
  /\ calls < MaxCalls
  /\ calls' = calls + 1
  /\ entry' = content
  /\ offset' = 0
  /\ i' = 0
  /\ LET r == FindAll(diff.hunks, content)
     IN /\ hunks' = r.hunks
        /\ exc' = r.exc
        /\ pc' = IF r.exc = NoExc THEN "loop" ELSE "raised"
  /\ UNCHANGED <<diff, content, strict, parseVars, auxVars>>

(* UnifiedDiff.apply, lines 242-243: offset = 0 and the hunk list, which   *)
(* in fuzzy mode is every hunk relocated against the buffer as passed in.  *)
ApplyCall ==
  /\ pc \in {"ready", "returned"}
  /\ calls < MaxCalls
  /\ calls' = calls + 1
  /\ entry' = content
  /\ offset' = 0
  /\ i' = 0
  /\ IF strict
     THEN /\ hunks' = diff.hunks
          /\ pc' = "loop"
          /\ exc' = NoExc
     ELSE LET r == FindAll(diff.hunks, content)
          IN /\ hunks' = r.hunks
             /\ exc' = r.exc
             /\ pc' = IF r.exc = NoExc THEN "loop" ELSE "raised"
  /\ UNCHANGED <<diff, content, strict, parseVars, auxVars>>

(* One iteration of the loop, lines 244-245:                               *)
(* offset += hunk.apply(content, offset).                                  *)
ApplyHunk ==
  /\ pc = "loop"
  /\ i < Len(hunks)
  /\ LET r == HunkApply(hunks[i + 1], content, offset)
     IN IF r.exc # NoExc
        THEN /\ pc' = "raised"
             /\ exc' = r.exc
             /\ content' = r.content
             /\ UNCHANGED <<offset, i>>
        ELSE /\ content' = r.content
             /\ offset' = offset + r.ret
             /\ i' = i + 1
             /\ UNCHANGED <<pc, exc>>
  /\ UNCHANGED <<diff, strict, hunks, entry, calls, parseVars, auxVars>>

(* Line 246: return content.                                               *)
ApplyReturn ==
  /\ pc = "loop"
  /\ i = Len(hunks)
  /\ pc' = "returned"
  /\ UNCHANGED <<diff, exc, applyVars, parseVars, auxVars>>

Next == ApplyCall \/ ApplyHunk \/ ApplyReturn

Spec == Init /\ [][Next]_vars

TypeOK ==
  /\ pc \in {"ready", "loop", "returned", "raised",
             "text", "parsed", "serialized", "reparsed", "hunk",
             "applied", "idle"}
  /\ i \in 0..Len(hunks)
  /\ calls \in 0..MaxCalls
  /\ strict \in BOOLEAN

----------------------------------------------------------------------------
(* Vocabulary of the properties.                                           *)

IsVerifyError(e) ==
  /\ e.type = "UnifiedDiffError"
  /\ e.msg \in {"expected lines before", "expected lines after",
                "content does not match"}

IsNotFoundError(e) ==
  e.type = "UnifiedDiffError" /\ e.msg = "Could not find hunk"

(* before occurs in lines as one contiguous run starting at 0-based p.     *)
OccursAt(lines, before, p) ==
  /\ p >= 0
  /\ p + Len(before) <= Len(lines)
  /\ \A j \in 1..Len(before) : lines[p + j] = before[j]

Occurrences(lines, before) ==
  {p \in 0..Len(lines) : OccursAt(lines, before, p)}

(* lines with the cnt lines from 0-based index p on replaced by new.       *)
ReplaceAt(lines, p, cnt, new) ==
  [j \in 1..(Len(lines) - cnt + Len(new)) |->
     IF j <= p THEN lines[j]
     ELSE IF j <= p + Len(new) THEN new[j - p]
     ELSE lines[j - Len(new) + cnt]]

RECURSIVE SumDelta(_, _)
SumDelta(hs, k) ==
  IF k = 0 THEN 0
  ELSE SumDelta(hs, k - 1) + (Len(hs[k].after) - Len(hs[k].before))

CountsAgree(h) ==
  Len(h.before) = h.from_count /\ Len(h.after) = h.to_count

(* h covers original lines from_line..from_line+from_count-1 of orig and   *)
(* before equals them; an insertion names an existing line or 0.           *)
MatchesOriginal(h, orig) ==
  IF h.from_count = 0
  THEN h.from_line <= Len(orig)
  ELSE /\ h.from_line >= 1
       /\ h.from_line + h.from_count - 1 <= Len(orig)
       /\ \A j \in 1..h.from_count : orig[h.from_line + j - 1] = h.before[j]

(* g comes before h: increasing from_line, and the lines of g end before   *)
(* the lines of h start (an insertion point after line n counts as lying   *)
(* between line n and line n+1, so it may not fall inside another range).  *)
Precedes(g, h) ==
  /\ g.from_line < h.from_line
  /\ g.from_count > 0 =>
       IF h.from_count > 0
       THEN g.from_line + g.from_count - 1 < h.from_line
       ELSE g.from_line + g.from_count - 1 <= h.from_line

OrderedDisjoint(hs) ==
  \A k \in 1..Len(hs) : \A l \in 1..Len(hs) : k < l => Precedes(hs[k], hs[l])

(* f[lo] \o ... \o f[hi]                                                   *)
RECURSIVE Flatten(_, _, _)
Flatten(f, lo, hi) ==
  IF lo > hi THEN <<>>
  ELSE IF lo = hi THEN f[lo]
  ELSE LET mid == (lo + hi) \div 2
       IN Flatten(f, lo, mid) \o Flatten(f, mid + 1, hi)

(* orig with every hunk's range replaced by its after, all at once.        *)
ReplacedAtOnce(orig, hs) ==
  LET K == 1..Len(hs)
      startsAt(p) == {k \in K : hs[k].from_count > 0 /\ hs[k].from_line = p}
      covers(p)   == {k \in K : /\ hs[k].from_count > 0
                                /\ hs[k].from_line <= p
                                /\ p < hs[k].from_line + hs[k].from_count}
      insertsAt(p) == {k \in K : hs[k].from_count = 0 /\ hs[k].from_line = p}
      line(p) == IF p = 0 THEN <<>>
                 ELSE IF startsAt(p) # {}
                      THEN hs[CHOOSE k \in startsAt(p) : TRUE].after
                 ELSE IF covers(p) # {} THEN <<>>
                 ELSE <<orig[p]>>
      ins(p)  == IF insertsAt(p) # {}
                 THEN hs[CHOOSE k \in insertsAt(p) : TRUE].after
                 ELSE <<>>
  IN Flatten([p \in 0..Len(orig) |-> line(p) \o ins(p)], 0, Len(orig))

----------------------------------------------------------------------------
(* C1: strict apply of hunks that are in increasing order, pairwise        *)
(* disjoint, with counts agreeing with their lists and before equal to the *)
(* original lines, never raises, and after k hunks the buffer is the       *)
(* original with the first k ranges replaced at once; on return it is the  *)
(* original with every range replaced.                                     *)
C1_Precondition ==
  /\ strict
  /\ calls >= 1
  /\ \A k \in 1..Len(diff.hunks) :
       CountsAgree(diff.hunks[k]) /\ MatchesOriginal(diff.hunks[k], entry)
  /\ OrderedDisjoint(diff.hunks)

C1_StrictMultiHunk ==
  C1_Precondition =>
    /\ pc # "raised"
    /\ content = ReplacedAtOnce(entry, SubSeq(diff.hunks, 1, i))
    /\ pc = "returned" => content = ReplacedAtOnce(entry, diff.hunks)

C1_Witness ==
  /\ C1_Precondition
  /\ pc = "returned"
  /\ Len(diff.hunks) = 2
  /\ diff.hunks[1].to_count # diff.hunks[1].from_count
  /\ diff.hunks[2].from_count > 0
  /\ diff.hunks[2].after # diff.hunks[2].before

----------------------------------------------------------------------------
(* The buffer after the first k hunks of hs were applied to buf in order,  *)
(* each at its own start index shifted by the length change so far.        *)
RECURSIVE AppliedPrefix(_, _, _)
AppliedPrefix(buf, hs, k) ==
  IF k = 0 THEN buf
  ELSE LET prev == AppliedPrefix(buf, hs, k - 1)
           h    == hs[k]
           st   == (IF h.from_count > 0 THEN h.from_line - 1 ELSE h.from_line)
                   + SumDelta(hs, k - 1)
       IN PySetSlice(prev, st, st + h.from_count, h.after)

(* C2: when strict apply fails at a hunk, the failure is a VerifyError,    *)
(* the buffer is the one left by the hunks applied before it, the failing  *)
(* step changes neither the buffer nor the number of applied hunks, and    *)
(* nothing runs after the failure.                                         *)
C2_PartialApplication ==
  [][ /\ pc # "raised"
      /\ (strict /\ pc = "loop" /\ pc' = "raised") =>
            /\ IsVerifyError(exc')
            /\ content' = content
            /\ i' = i
            /\ i < Len(diff.hunks)
            /\ content = AppliedPrefix(entry, diff.hunks, i) ]_vars

C2_Witness ==
  /\ strict
  /\ pc = "raised"
  /\ Len(diff.hunks) = 2
  /\ i = 1
  /\ content # entry

(* C3: the verify at the head of an apply step raises exactly when a count *)
(* disagrees with its list or the slice content[start:end] differs from    *)
(* before line for line; the raising step leaves the buffer as it was and  *)
(* a passing verify hands the unchanged buffer to the replacement.         *)
SliceDiffers(cont, start, end, before) ==
  LET s == PySlice(cont, start, end)
  IN Len(s) # Len(before) \/ \E j \in 1..Len(s) : s[j] # before[j]

C3_VerifyFails(h, cont, off) ==
  LET start == (IF h.from_count > 0 THEN h.from_line - 1 ELSE h.from_line) + off
  IN \/ Len(h.before) # h.from_count
     \/ Len(h.after) # h.to_count
     \/ SliceDiffers(cont, start, start + h.from_count, h.before)

C3_VerifyIff ==
  [][ (pc = "loop" /\ i < Len(hunks)) =>
        LET h == hunks[i + 1]
        IN /\ (pc' = "raised") <=> C3_VerifyFails(h, content, offset)
           /\ pc' = "raised" => IsVerifyError(exc') /\ content' = content
           /\ pc' # "raised" => exc' = NoExc /\ Len(content') = Len(content) + Len(h.after) - Len(h.before) ]_vars

C3_Witness ==
  /\ pc = "raised"
  /\ i < Len(hunks)
  /\ CountsAgree(hunks[i + 1])
  /\ offset # 0
  /\ exc = UnifiedDiffError("content does not match")
  /\ Len(PySlice(content, StartOf(hunks[i + 1], offset), EndOf(hunks[i + 1], offset)))
       = Len(hunks[i + 1].before)

----------------------------------------------------------------------------
(* C4 as stated: a strict patch that applied never applies a second time.  *)
C4_ReapplyAlwaysFails ==
  ~(strict /\ calls = 2 /\ pc = "returned")

(* C4 amended: when the first hunk replaces as many lines as it removes,   *)
(* with different text, and the hunks are in increasing disjoint order, the*)
(* second strict application stops at the first hunk with a VerifyError    *)
(* and leaves the patched output as it was.                                *)
C4_Precondition ==
  /\ strict
  /\ calls = 2
  /\ Len(diff.hunks) >= 1
  /\ diff.hunks[1].from_count = diff.hunks[1].to_count
  /\ CountsAgree(diff.hunks[1])
  /\ diff.hunks[1].before # diff.hunks[1].after
  /\ OrderedDisjoint(diff.hunks)

C4_ReapplyFails ==
  C4_Precondition =>
    /\ pc \in {"loop", "raised"}
    /\ i = 0
    /\ content = entry
    /\ pc = "raised" => IsVerifyError(exc)

C4_Witness ==
  /\ C4_Precondition
  /\ pc = "raised"
  /\ Len(diff.hunks) = 2

----------------------------------------------------------------------------
(* C5: fuzzy apply of a single hunk whose non-empty before occurs exactly  *)
(* once in the buffer, at index p, does not raise and returns the buffer   *)
(* with exactly those lines replaced by after.                             *)
C5_Precondition ==
  /\ ~strict
  /\ calls >= 1
  /\ Len(diff.hunks) = 1
  /\ diff.hunks[1].before # <<>>
  /\ Cardinality(Occurrences(entry, diff.hunks[1].before)) = 1

C5_FuzzyRelocation ==
  C5_Precondition =>
    LET h == diff.hunks[1]
        p == CHOOSE q \in Occurrences(entry, h.before) : TRUE
    IN /\ pc # "raised"
       /\ pc = "returned" =>
            content = ReplaceAt(entry, p, Len(h.before), h.after)

----------------------------------------------------------------------------
(* C6: a fuzzy apply in which some hunk's before does not occur as one     *)
(* contiguous run in the buffer fails with NotFoundError (and has changed  *)
(* nothing).                                                               *)
C6_SomeHunkAbsent ==
  /\ ~strict
  /\ calls >= 1
  /\ \E k \in 1..Len(diff.hunks) : Occurrences(entry, diff.hunks[k].before) = {}

C6_FindRejectsPartial ==
  C6_SomeHunkAbsent =>
    /\ pc = "raised"
    /\ IsNotFoundError(exc)
    /\ content = entry

(* All lines of before occur in the buffer, a proper part of before occurs *)
(* contiguously, but before as a whole does not.                           *)
C6_Witness ==
  /\ C6_SomeHunkAbsent
  /\ pc = "raised"
  /\ Len(diff.hunks) = 1
  /\ Len(diff.hunks[1].before) = 2
  /\ Elems(diff.hunks[1].before) \subseteq Elems(entry)
  /\ diff.hunks[1].before[1] # diff.hunks[1].before[2]

----------------------------------------------------------------------------
(* Index at which Find places a hunk in buf: the earliest occurrence of   *)
(* before; index 1 for an empty before.                                    *)
RelocatedStart(h, buf) ==
  IF h.before = <<>> THEN 1 ELSE SetMin(Occurrences(buf, h.before))

(* C7 as stated: every fuzzy loop step relocates its hunk against the      *)
(* buffer as it is at that step and applies it there with offset 0.        *)
C7_RelocatesAgainstCurrent ==
  [][ (~strict /\ pc = "loop" /\ i' = i + 1) =>
        LET h  == diff.hunks[i + 1]
            st == RelocatedStart(h, content)
        IN /\ Occurrences(content, h.before) # {}
           /\ content' = PySetSlice(content, st, st + Len(h.before), h.after)
    ]_vars

(* C7 amended: a fuzzy call relocates every hunk against the buffer as     *)
(* passed in, before any hunk is applied (raising NotFoundError, with the  *)
(* buffer untouched, if one is absent); the k-th relocated hunk is then    *)
(* verified and applied at its relocated start shifted by the offset       *)
(* accumulated from hunks 1..k-1.                                          *)
C7_RelocatesAgainstInitial ==
  [][ /\ (~strict /\ pc' = "loop" /\ pc # "loop") =>
           /\ content' = content
           /\ Len(hunks') = Len(diff.hunks)
           /\ \A k \in 1..Len(diff.hunks) :
                Occurrences(content, diff.hunks[k].before) # {}
      /\ (~strict /\ pc = "loop" /\ i' = i + 1) =>
           LET h  == diff.hunks[i + 1]
               st == RelocatedStart(h, entry) + SumDelta(diff.hunks, i)
           IN /\ offset = SumDelta(diff.hunks, i)
              /\ PySlice(content, st, st + Len(h.before)) = h.before
              /\ content' = PySetSlice(content, st, st + Len(h.before), h.after)
    ]_vars

(* The second hunk was applied after a first hunk that changed the length  *)
(* of the buffer, at a place where a fresh search would not have put it.   *)
C7_Witness ==
  /\ ~strict
  /\ pc = "returned"
  /\ calls = 1
  /\ Len(diff.hunks) = 2
  /\ i = 2
  /\ Len(diff.hunks[1].after) # Len(diff.hunks[1].before)
  /\ diff.hunks[2].before # <<>>
  /\ content # PySetSlice(entry, RelocatedStart(diff.hunks[1], entry),
                          RelocatedStart(diff.hunks[1], entry) + Len(diff.hunks[1].before),
                          diff.hunks[1].after)

----------------------------------------------------------------------------
(* Parsing.  A string is a sequence of one-character strings.              *)

NL  == "\n"
TAB == "\t"
Digits == {"0", "1", "2", "3", "4", "5", "6", "7", "8", "9"}

DigitVal(c) ==
  CHOOSE n \in 0..9 : <<"0", "1", "2", "3", "4", "5", "6", "7", "8", "9">>[n + 1] = c

(* int(digits)                                                             *)
RECURSIVE ToInt(_)
ToInt(ds) ==
  IF ds = <<>> THEN 0
  ELSE ToInt(SubSeq(ds, 1, Len(ds) - 1)) * 10 + DigitVal(ds[Len(ds)])

(* str.splitlines(): lines end at a newline, which is dropped; a final     *)
(* newline does not open another line.                                     *)
SplitLines(str) ==
  LET nl     == {k \in 1..Len(str) : str[k] = NL}
      n      == Cardinality(nl)
                + (IF Len(str) > 0 /\ str[Len(str)] # NL THEN 1 ELSE 0)
      nth(k) == CHOOSE q \in nl : Cardinality({r \in nl : r <= q}) = k
      lo(k)  == IF k = 1 THEN 1 ELSE nth(k - 1) + 1
      hi(k)  == IF k <= Cardinality(nl) THEN nth(k) - 1 ELSE Len(str)
  IN [k \in 1..n |-> SubSeq(str, lo(k), hi(k))]

(* "\n".join(lines)                                                        *)
RECURSIVE Join(_)
Join(lines) ==
  IF lines = <<>> THEN <<>>
  ELSE IF Len(lines) = 1 THEN lines[1]
  ELSE lines[1] \o <<NL>> \o Join(Tail(lines))

StartsWith(line, pre, at) ==
  /\ at >= 1
  /\ at + Len(pre) - 1 <= Len(line)
  /\ \A k \in 1..Len(pre) : line[at + k - 1] = pre[k]

NoMatch == [matched |-> FALSE]

(* _UNIFIED_DIFF_HEADER_REGEX.match(line): "---" or "+++", a space, the    *)
(* file (everything up to the first tab), and after a tab the timestamp.   *)
HeaderMatch(line) ==
  LET ok   == \/ StartsWith(line, <<"-", "-", "-", " ">>, 1)
              \/ StartsWith(line, <<"+", "+", "+", " ">>, 1)
      tabs == {k \in 5..Len(line) : line[k] = TAB}
      fend == IF tabs = {} THEN Len(line) ELSE SetMin(tabs) - 1
  IN IF ~ok THEN NoMatch
     ELSE [matched |-> TRUE,
           type |-> SubSeq(line, 1, 3),
           file |-> SubSeq(line, 5, fend),
           timestamp |-> IF tabs = {} THEN None
                         ELSE SubSeq(line, fend + 2, Len(line))]

(* Index of the last character of the run of digits that starts at at      *)
(* (at - 1 when line[at] is no digit).                                     *)
DigitsEnd(line, at) ==
  LET other == {k \in at..Len(line) : line[k] \notin Digits}
  IN IF other = {} THEN Max(Len(line), at - 1) ELSE SetMin(other) - 1

(* _UNIFIED_DIFF_HUNK_HEADER_REGEX.match(line): "@@ -", digits, optionally *)
(* a comma and digits, " +", digits, optionally a comma and digits, " @@". *)
(* match() anchors at the start only, so any text may follow the last @@.  *)
HunkHeaderMatch(line) ==
  LET e1    == DigitsEnd(line, 5)
      hasFc == StartsWith(line, <<",">>, e1 + 1) /\ DigitsEnd(line, e1 + 2) >= e1 + 2
      e2    == IF hasFc THEN DigitsEnd(line, e1 + 2) ELSE e1
      s3    == e2 + 3
      e3    == DigitsEnd(line, s3)
      hasTc == StartsWith(line, <<",">>, e3 + 1) /\ DigitsEnd(line, e3 + 2) >= e3 + 2
      e4    == IF hasTc THEN DigitsEnd(line, e3 + 2) ELSE e3
      ok    == /\ StartsWith(line, <<"@", "@", " ", "-">>, 1)
               /\ e1 >= 5
               /\ StartsWith(line, <<" ", "+">>, e2 + 1)
               /\ e3 >= s3
               /\ StartsWith(line, <<" ", "@", "@">>, e4 + 1)
  IN IF ~ok THEN NoMatch
     ELSE [matched |-> TRUE,
           from_line  |-> SubSeq(line, 5, e1),
           from_count |-> IF hasFc THEN SubSeq(line, e1 + 2, e2) ELSE None,
           to_line    |-> SubSeq(line, s3, e3),
           to_count   |-> IF hasTc THEN SubSeq(line, e3 + 2, e4) ELSE None]

(* The contents of the body lines whose prefix is in prefixes, in order.   *)
RECURSIVE BodyLines(_, _)
BodyLines(body, prefixes) ==
  IF body = <<>> THEN <<>>
  ELSE (IF Head(body)[1] \in prefixes THEN <<Tail(Head(body))>> ELSE <<>>)
       \o BodyLines(Tail(body), prefixes)

(* from_lines that raises UnifiedDiffError for a bad header.               *)
HunkFromLines_UniformError(lines) ==
  IF lines = <<>>
  THEN [exc |-> Raise("IndexError", "list index out of range"), hunk |-> NoHunk]
  ELSE
  LET header == lines[1]
      body   == Tail(lines)
      m      == HunkHeaderMatch(header)
      bad    == {k \in 1..Len(body) :
                   body[k] = <<>> \/ body[k][1] \notin {" ", "+", "-"}}
  IN IF ~m.matched
     THEN [exc |-> UnifiedDiffError("Invalid unified diff hunk header"),
           hunk |-> NoHunk]
     ELSE IF bad # {}
     THEN [exc |-> IF body[SetMin(bad)] = <<>>
                   THEN Raise("IndexError", "string index out of range")
                   ELSE UnifiedDiffError("Invalid unified diff hunk line prefix"),
           hunk |-> NoHunk]
     ELSE [exc |-> NoExc,
           hunk |-> UnifiedDiffHunk(
                      ToInt(m.from_line),
                      IF m.from_count # None THEN ToInt(m.from_count) ELSE 1,
                      ToInt(m.to_line),
                      IF m.to_count # None THEN ToInt(m.to_count) ELSE 1,
                      BodyLines(body, {" ", "-"}),
                      BodyLines(body, {" ", "+"}))]

(* from_lines that appends a "+" line to before as well as to after.       *)
HunkFromLines_PlusInBefore(lines) ==
  IF lines = <<>>
  THEN [exc |-> Raise("IndexError", "list index out of range"), hunk |-> NoHunk]
  ELSE
  LET header == lines[1]
      body   == Tail(lines)
      m      == HunkHeaderMatch(header)
      bad    == {k \in 1..Len(body) :
                   body[k] = <<>> \/ body[k][1] \notin {" ", "+", "-"}}
  IN IF ~m.matched
     THEN [exc |-> Raise("ValueError", "Invalid unified diff hunk header"),
           hunk |-> NoHunk]
     ELSE IF bad # {}
     THEN [exc |-> IF body[SetMin(bad)] = <<>>
                   THEN Raise("IndexError", "string index out of range")
                   ELSE UnifiedDiffError("Invalid unified diff hunk line prefix"),
           hunk |-> NoHunk]
     ELSE [exc |-> NoExc,
           hunk |-> UnifiedDiffHunk(
                      ToInt(m.from_line),
                      IF m.from_count # None THEN ToInt(m.from_count) ELSE 1,
                      ToInt(m.to_line),
                      IF m.to_count # None THEN ToInt(m.to_count) ELSE 1,
                      BodyLines(body, {" ", "-", "+"}),
                      BodyLines(body, {" ", "+"}))]

(* from_lines whose omitted to-count defaults to the from-count.           *)
HunkFromLines_SharedDefault(lines) ==
  IF lines = <<>>
  THEN [exc |-> Raise("IndexError", "list index out of range"), hunk |-> NoHunk]
  ELSE
  LET header == lines[1]
      body   == Tail(lines)
      m      == HunkHeaderMatch(header)
      bad    == {k \in 1..Len(body) :
                   body[k] = <<>> \/ body[k][1] \notin {" ", "+", "-"}}
      fc     == IF m.from_count # None THEN ToInt(m.from_count) ELSE 1
  IN IF ~m.matched
     THEN [exc |-> Raise("ValueError", "Invalid unified diff hunk header"),
           hunk |-> NoHunk]
     ELSE IF bad # {}
     THEN [exc |-> IF body[SetMin(bad)] = <<>>
                   THEN Raise("IndexError", "string index out of range")
                   ELSE UnifiedDiffError("Invalid unified diff hunk line prefix"),
           hunk |-> NoHunk]
     ELSE [exc |-> NoExc,
           hunk |-> UnifiedDiffHunk(
                      ToInt(m.from_line),
                      fc,
                      ToInt(m.to_line),
                      IF m.to_count # None THEN ToInt(m.to_count) ELSE fc,
                      BodyLines(body, {" ", "-"}),
                      BodyLines(body, {" ", "+"}))]

(* UnifiedDiffHunk.from_lines(lines): the exception or the hunk.           *)
HunkFromLines(lines) ==
  IF lines = <<>>
  THEN [exc |-> Raise("IndexError", "list index out of range"), hunk |-> NoHunk]
  ELSE
  LET header == lines[1]
      body   == Tail(lines)
      m      == HunkHeaderMatch(header)
      bad    == {k \in 1..Len(body) :
                   body[k] = <<>> \/ body[k][1] \notin {" ", "+", "-"}}
  IN IF ~m.matched
     THEN [exc |-> Raise("ValueError", "Invalid unified diff hunk header"),
           hunk |-> NoHunk]
     ELSE IF bad # {}
     THEN [exc |-> IF body[SetMin(bad)] = <<>>
                   THEN Raise("IndexError", "string index out of range")
                   ELSE UnifiedDiffError("Invalid unified diff hunk line prefix"),
           hunk |-> NoHunk]
     ELSE [exc |-> NoExc,
           hunk |-> UnifiedDiffHunk(
                      ToInt(m.from_line),
                      IF m.from_count # None THEN ToInt(m.from_count) ELSE 1,
                      ToInt(m.to_line),
                      IF m.to_count # None THEN ToInt(m.to_count) ELSE 1,
                      BodyLines(body, {" ", "-"}),
                      BodyLines(body, {" ", "+"}))]

(* UnifiedDiffHunk.from_string(string)                                     *)
HunkFromString(string) == HunkFromLines(SplitLines(string))

(* Number of leading lines UnifiedDiff.from_string reads as file header.   *)
FileHeaderLines == 2

(* The positions in rest of the lines that match the hunk header regex.    *)
HunkStarts(rest) ==
  {k \in 1..Len(rest) : HunkHeaderMatch(rest[k]).matched}

(* The k-th smallest element of a set of numbers.                          *)
NthOf(S, k) == CHOOSE q \in S : Cardinality({r \in S : r <= q}) = k

(* current_hunk_lines of the k-th hunk: its header line and the lines up   *)
(* to the next hunk header (or the end of the text).                       *)
HunkSegment(rest, heads, k) ==
  SubSeq(rest, NthOf(heads, k),
         IF k < Cardinality(heads) THEN NthOf(heads, k + 1) - 1 ELSE Len(rest))

(* The segments parsed without the one that runs to the end of the text.   *)
ParseHunks_DropLast(rest, heads) ==
  [k \in 1..(Cardinality(heads) - 1) |->
     HunkFromLines(HunkSegment(rest, heads, k))]

(* UnifiedDiffHunk.from_lines applied to every segment, in order.          *)
ParseHunks(rest, heads) ==
  [k \in 1..Cardinality(heads) |-> HunkFromLines(HunkSegment(rest, heads, k))]

(* The file of the last header line of type t, None without such a line.   *)
HeaderFile(header, t) ==
  LET ofType == {k \in 1..Len(header) : HeaderMatch(header[k]).type = t}
  IN IF ofType = {} THEN None ELSE HeaderMatch(header[SetMax(ofType)]).file

(* The outcome of from_string for the header lines and the parsed hunks:   *)
(* the header lines are checked first, then the first failing hunk raises. *)
DiffFromParts(header, res) ==
  LET badH == {k \in 1..Len(header) : ~HeaderMatch(header[k]).matched}
      badS == {k \in 1..Len(res) : res[k].exc # NoExc}
  IN IF badH # {}
     THEN [exc |-> UnifiedDiffError("Invalid unified diff header"), diff |-> NoDiff]
     ELSE IF badS # {}
     THEN [exc |-> res[SetMin(badS)].exc, diff |-> NoDiff]
     ELSE [exc |-> NoExc,
           diff |-> UnifiedDiff(HeaderFile(header, <<"-", "-", "-">>),
                                HeaderFile(header, <<"+", "+", "+">>),
                                [k \in 1..Len(res) |-> res[k].hunk])]

(* The header lines are lines[:2], the hunks come from lines[2:].          *)
DiffFromLines(lines) ==
  DiffFromParts(SubSeq(lines, 1, Min(FileHeaderLines, Len(lines))),
                ParseHunks(SubSeq(lines, FileHeaderLines + 1, Len(lines)),
                           HunkStarts(SubSeq(lines, FileHeaderLines + 1, Len(lines)))))

(* UnifiedDiff.from_string(string): the exception or the diff.             *)
DiffFromString(string) == DiffFromLines(SplitLines(string))

----------------------------------------------------------------------------
(* Serialization to the text form of the wire format: the file header, and *)
(* per hunk its header with both counts written, the before lines with     *)
(* prefix "-" and the after lines with prefix "+".                         *)

RECURSIVE IntToDigits(_)
IntToDigits(n) ==
  IF n < 10 THEN <<CHOOSE c \in Digits : DigitVal(c) = n>>
  ELSE IntToDigits(n \div 10) \o <<CHOOSE c \in Digits : DigitVal(c) = n % 10>>

HunkToLines(h) ==
  << <<"@", "@", " ", "-">> \o IntToDigits(h.from_line) \o <<",">>
       \o IntToDigits(h.from_count) \o <<" ", "+">> \o IntToDigits(h.to_line)
       \o <<",">> \o IntToDigits(h.to_count) \o <<" ", "@", "@">> >>
  \o [k \in 1..Len(h.before) |-> <<"-">> \o h.before[k]]
  \o [k \in 1..Len(h.after) |-> <<"+">> \o h.after[k]]

RECURSIVE HunksToLines(_)
HunksToLines(hs) ==
  IF hs = <<>> THEN <<>> ELSE HunkToLines(Head(hs)) \o HunksToLines(Tail(hs))

DiffToString(d) ==
  Join(<< <<"-", "-", "-", " ">> \o d.from_file,
          <<"+", "+", "+", " ">> \o d.to_file >> \o HunksToLines(d.hunks))

----------------------------------------------------------------------------
(* Patch texts: up to two leading lines, then up to MaxRest further lines, *)
(* with or without a final newline.                                        *)
MaxRest == 3

HeaderLines ==
  { <<"-", "-", "-", " ", "a">>,
    <<"+", "+", "+", " ", "b">>,
    <<"-", "-", " ", "a">> }

HeaderChoices ==
  SeqUpTo(HeaderLines, FileHeaderLines)
    \cup { << <<"-", "-", "-", " ", "a", TAB, "t">>,
             <<"+", "+", "+", " ", "b">> >> }

RestLines ==
  { <<"@", "@", " ", "-", "1", " ", "+", "1", " ", "@", "@">>,
    <<"@", "@", " ", "-", "1", ",", "1", " ", "+", "1", ",", "1", " ", "@", "@">>,
    <<"@", "@", " ", "-", "2", ",", "0", " ", "+", "3", " ", "@", "@", " ", "f">>,
    <<"@", "@", " ", "b", "a", "d", " ", "@", "@">>,
    <<" ", "a">>,
    <<"-", "a">>,
    <<"+", "b">>,
    <<>> }

PatchTexts ==
  {Join(h \o r) \o t :
     h \in HeaderChoices,
     r \in SeqUpTo(RestLines, MaxRest),
     t \in {<<>>, <<NL>>}}

InitParse ==
  /\ text \in PatchTexts
  /\ src = text
  /\ first = NoDiff
  /\ hunk = NoHunk
  /\ diff = NoDiff
  /\ pc = "text"
  /\ exc = NoExc
  /\ content = <<>> /\ entry = <<>> /\ strict = TRUE
  /\ hunks = <<>> /\ offset = 0 /\ i = 0 /\ calls = 0
  /\ RateIdle /\ rl_rpm2 = 2
  /\ ToolsIdle /\ allowed = AllowAll

(* A caller parses the text as a patch.                                    *)
CallDiffFromString ==
  /\ pc \in {"text", "serialized"}
  /\ LET r == DiffFromString(text)
     IN IF r.exc # NoExc
        THEN pc' = "raised" /\ exc' = r.exc /\ UNCHANGED <<diff, first>>
        ELSE /\ diff' = r.diff
             /\ first' = IF pc = "text" THEN r.diff ELSE first
             /\ pc' = IF pc = "text" THEN "parsed" ELSE "reparsed"
             /\ exc' = NoExc
  /\ UNCHANGED <<text, src, hunk, applyVars, auxVars>>

(* A caller parses the text as a single hunk.                              *)
CallHunkFromString ==
  /\ pc = "text"
  /\ LET r == HunkFromString(text)
     IN /\ hunk' = r.hunk
        /\ exc' = r.exc
        /\ pc' = IF r.exc # NoExc THEN "raised" ELSE "hunk"
  /\ UNCHANGED <<text, src, first, diff, applyVars, auxVars>>

(* A caller writes a parsed diff (with both file labels) back as text.     *)
CallDiffToString ==
  /\ pc = "parsed"
  /\ diff.from_file # None
  /\ diff.to_file # None
  /\ text' = DiffToString(diff)
  /\ pc' = "serialized"
  /\ UNCHANGED <<diff, exc, src, first, hunk, applyVars, auxVars>>

NextParse == CallDiffFromString \/ CallHunkFromString \/ CallDiffToString

SpecParse == InitParse /\ [][NextParse]_vars

----------------------------------------------------------------------------
(* Parsing a patch text and applying the parsed diff to a buffer.          *)

(* Texts with the file header in place.                                    *)
HeadedPatchTexts ==
  {Join(<< <<"-", "-", "-", " ", "a">>, <<"+", "+", "+", " ", "b">> >> \o r) \o t :
     r \in SeqUpTo(RestLines, MaxRest),
     t \in {<<>>, <<NL>>}}

(* Buffers whose lines are strings of characters, as the parser's are.     *)
PatchContents == SeqUpTo({<<"a">>, <<"b">>}, MaxContent)

InitPatch ==
  /\ text \in HeadedPatchTexts
  /\ src = text
  /\ first = NoDiff
  /\ hunk = NoHunk
  /\ diff = NoDiff
  /\ pc = "text"
  /\ exc = NoExc
  /\ content = <<>> /\ entry = <<>> /\ strict = TRUE
  /\ hunks = <<>> /\ offset = 0 /\ i = 0 /\ calls = 0
  /\ RateIdle /\ rl_rpm2 = 2
  /\ ToolsIdle /\ allowed = AllowAll

(* A caller applies the parsed diff to a buffer: UnifiedDiff.apply.        *)
CallDiffApply ==
  /\ pc = "parsed"
  /\ \E c \in PatchContents, st \in BOOLEAN :
       LET r == DiffApply(diff, c, st)
       IN /\ entry' = c
          /\ strict' = st
          /\ content' = r.content
          /\ exc' = r.exc
          /\ pc' = IF r.exc = NoExc THEN "applied" ELSE "raised"
  /\ calls' = calls + 1
  /\ UNCHANGED <<diff, hunks, offset, i, parseVars, auxVars>>

NextPatch == CallDiffFromString \/ CallDiffApply

SpecPatch == InitPatch /\ [][NextPatch]_vars

----------------------------------------------------------------------------
StripFinalNewline(str) ==
  IF Len(str) > 0 /\ str[Len(str)] = NL THEN SubSeq(str, 1, Len(str) - 1) ELSE str

MinusHeader == <<"-", "-", "-", " ">>
PlusHeader  == <<"+", "+", "+", " ">>

(* The text is a file header in order followed by hunks: a "--- " line, a  *)
(* "+++ " line, then hunk headers each followed by lines with prefix       *)
(* " ", "+" or "-".                                                        *)
ValidPatchText(str) ==
  LET lines == SplitLines(str)
  IN /\ Len(lines) >= 2
     /\ StartsWith(lines[1], MinusHeader, 1)
     /\ StartsWith(lines[2], PlusHeader, 1)
     /\ Len(lines) >= 3 => HunkHeaderMatch(lines[3]).matched
     /\ \A k \in 3..Len(lines) :
          \/ HunkHeaderMatch(lines[k]).matched
          \/ lines[k] # <<>> /\ lines[k][1] \in {" ", "+", "-"}

(* The text is written the way DiffToString writes: no timestamp, hunk     *)
(* headers with both counts, no leading zeros and nothing after the last   *)
(* @@, no context lines, and in each hunk the "-" lines before the "+"     *)
(* lines.                                                                  *)
CanonicalPatchText(str) ==
  LET lines == SplitLines(str)
      isHead(k) == HunkHeaderMatch(lines[k]).matched
      canonHead(l) ==
        LET m == HunkHeaderMatch(l)
        IN /\ m.from_count # None
           /\ m.to_count # None
           /\ l = <<"@", "@", " ", "-">> \o IntToDigits(ToInt(m.from_line))
                  \o <<",">> \o IntToDigits(ToInt(m.from_count))
                  \o <<" ", "+">> \o IntToDigits(ToInt(m.to_line))
                  \o <<",">> \o IntToDigits(ToInt(m.to_count))
                  \o <<" ", "@", "@">>
  IN /\ ValidPatchText(str)
     /\ \A k \in 1..2 : \A c \in 1..Len(lines[k]) : lines[k][c] # TAB
     /\ \A k \in 3..Len(lines) :
          /\ isHead(k) => canonHead(lines[k])
          /\ ~isHead(k) => lines[k][1] # " "
          /\ (~isHead(k) /\ lines[k][1] = "+" /\ k < Len(lines) /\ ~isHead(k + 1))
               => lines[k + 1][1] = "+"

(* C8 as stated: writing a parsed valid text back yields the text again,   *)
(* up to the final newline.                                                *)
C8_RoundTripText ==
  (pc = "serialized" /\ ValidPatchText(src)) =>
     text = StripFinalNewline(src)

(* C8 amended: parsing the written form of a parsed diff succeeds and      *)
(* yields an equal diff; the written form equals the original text (up to  *)
(* the final newline) when that text is already in the written form.       *)
C8_RoundTripDiff ==
  [][ /\ pc = "serialized" => (pc' = "reparsed" /\ diff' = first /\ diff' = diff)
      /\ (pc' = "serialized" /\ CanonicalPatchText(src)) =>
            text' = StripFinalNewline(src) ]_vars

C8_Witness ==
  /\ pc = "reparsed"
  /\ ValidPatchText(src)
  /\ Len(diff.hunks) = 1
  /\ diff.hunks[1].before # <<>>
  /\ diff.hunks[1].after # <<>>
  /\ diff.hunks[1].before # diff.hunks[1].after
  /\ text # StripFinalNewline(src)

----------------------------------------------------------------------------
(* C9: a patch text parses only if its first line is a "--- " header and   *)
(* its second a "+++ " header, so a parsed diff has both file labels.      *)
C9_FileHeaderRequired ==
  pc = "parsed" =>
    LET lines == SplitLines(src)
    IN /\ Len(lines) >= 2
       /\ StartsWith(lines[1], MinusHeader, 1)
       /\ StartsWith(lines[2], PlusHeader, 1)
       /\ diff.from_file # None
       /\ diff.to_file # None

----------------------------------------------------------------------------
FirstLineIsNoHunkHeader(str) ==
  /\ SplitLines(str) # <<>>
  /\ ~HunkHeaderMatch(SplitLines(str)[1]).matched

----------------------------------------------------------------------------
(* The first line is a hunk header and some later line is empty or starts  *)
(* with a character other than " ", "+" and "-".                           *)
HasBadBodyLine(str) ==
  LET lines == SplitLines(str)
  IN /\ lines # <<>>
     /\ HunkHeaderMatch(lines[1]).matched
     /\ \E k \in 2..Len(lines) :
          lines[k] = <<>> \/ lines[k][1] \notin {" ", "+", "-"}

(* C11: parsing a hunk with a body line that is empty or has a prefix      *)
(* other than " ", "+", "-" fails with the error kind of the malformed-    *)
(* patch errors (UnifiedDiffError), and no hunk is produced.               *)
C11_BadPrefixIsFormatError ==
  [][ (CallHunkFromString /\ HasBadBodyLine(text)) =>
        /\ pc' = "raised"
        /\ exc'.type = "UnifiedDiffError"
        /\ hunk' = NoHunk ]_vars

----------------------------------------------------------------------------
(* C12: every hunk the parser produces has len(before) = from_count and    *)
(* len(after) = to_count.                                                  *)
C12_CountsInvariant ==
  /\ pc = "hunk" => CountsAgree(hunk)
  /\ pc = "parsed" => \A k \in 1..Len(diff.hunks) : CountsAgree(diff.hunks[k])

----------------------------------------------------------------------------
(* C13: a text parses only if no line stands between the file header and   *)
(* the first hunk header (every later line belongs to the hunk of the last *)
(* header before it, so these are the only lines a parse can pass over).   *)
C13_NoDroppedLines ==
  pc = "parsed" =>
    LET lines == SplitLines(src)
    IN Len(lines) > FileHeaderLines =>
         HunkHeaderMatch(lines[FileHeaderLines + 1]).matched

----------------------------------------------------------------------------
(* The range token of a hunk header that starts at position at: the        *)
(* characters up to the next space.                                        *)
RangeToken(header, at) ==
  LET sp == {k \in at..Len(header) : header[k] = " "}
  IN SubSeq(header, at, IF sp = {} THEN Len(header) ELSE SetMin(sp) - 1)

(* Whether a range token F or F,C writes a count, and the count it writes  *)
(* (the number after the comma).                                           *)
WritesCount(tok) == \E k \in 1..Len(tok) : tok[k] = ","

WrittenCount(tok) ==
  LET comma == {k \in 1..Len(tok) : tok[k] = ","}
  IN ToInt(SubSeq(tok, SetMin(comma) + 1, Len(tok)))

FromToken(header) == RangeToken(header, 5)
ToToken(header) == RangeToken(header, 5 + Len(FromToken(header)) + 2)

CountsAsWritten(h, header) ==
  /\ h.from_count = IF WritesCount(FromToken(header))
                    THEN WrittenCount(FromToken(header)) ELSE 1
  /\ h.to_count = IF WritesCount(ToToken(header))
                  THEN WrittenCount(ToToken(header)) ELSE 1

(* C17: a parsed hunk has from_count (to_count) 1 when its header omits    *)
(* that count and the written value otherwise, each side on its own.       *)
C17_DefaultCounts ==
  /\ pc = "hunk" => CountsAsWritten(hunk, SplitLines(src)[1])
  /\ pc = "parsed" =>
       LET lines == SplitLines(src)
           rest  == SubSeq(lines, FileHeaderLines + 1, Len(lines))
           heads == {k \in 1..Len(rest) : StartsWith(rest[k], <<"@", "@", " ", "-">>, 1)
                                           /\ HunkHeaderMatch(rest[k]).matched}
       IN \A k \in 1..Len(first.hunks) :
            CountsAsWritten(first.hunks[k], rest[NthOf(heads, k)])

(* A parsed hunk whose header writes a from-count of 0 and omits the       *)
(* to-count.                                                               *)
C17_Witness ==
  /\ pc = "parsed"
  /\ Len(first.hunks) >= 1
  /\ first.hunks[1].from_line = 2
  /\ first.hunks[1].from_count = 0
  /\ first.hunks[1].to_count = 1
  /\ ~WritesCount(ToToken(SplitLines(src)[FileHeaderLines + 1]))

----------------------------------------------------------------------------
(* The lines of str after the file header.                                 *)
AfterFileHeader(str) ==
  SubSeq(SplitLines(str), FileHeaderLines + 1, Len(SplitLines(str)))

(* The lines of rest from position p up to the line before the next line   *)
(* that is a hunk header (or the end).                                     *)
SegmentFrom(rest, p) ==
  LET later == {q \in (p + 1)..Len(rest) : HunkHeaderMatch(rest[q]).matched}
  IN SubSeq(rest, p, IF later = {} THEN Len(rest) ELSE SetMin(later) - 1)

(* d has one hunk per hunk-header line of rest, in order, each the hunk    *)
(* from_lines builds from that line's segment.                             *)
OneHunkPerHeader(d, rest) ==
  LET heads == {p \in 1..Len(rest) : HunkHeaderMatch(rest[p]).matched}
  IN /\ Len(d.hunks) = Cardinality(heads)
     /\ \A p \in heads :
          LET k == Cardinality({q \in heads : q <= p})
          IN /\ HunkFromLines(SegmentFrom(rest, p)).exc = NoExc
             /\ d.hunks[k] = HunkFromLines(SegmentFrom(rest, p)).hunk

(* C14: a parse that succeeds yields one hunk per hunk-header line, in     *)
(* order, each built from its header line up to the line before the next   *)
(* header; a text with the file header and no hunk header parses to a diff *)
(* with zero hunks, and applying a diff with zero hunks raises nothing and *)
(* leaves the buffer as it was passed in.                                  *)
C14_OneHunkPerHeader ==
  [][ /\ (pc = "text" /\ pc' = "parsed") =>
            OneHunkPerHeader(diff', AfterFileHeader(text))
      /\ (pc = "text" /\ \A p \in 1..Len(AfterFileHeader(text)) :
                            ~HunkHeaderMatch(AfterFileHeader(text)[p]).matched) =>
            (pc' = "parsed" /\ diff'.hunks = <<>>)
      /\ (pc = "parsed" /\ diff.hunks = <<>>) =>
            (pc' = "applied" /\ exc' = NoExc /\ content' = entry') ]_vars

(* Two hunks parsed from one text and applied in order.                    *)
C14_Witness ==
  /\ pc = "applied"
  /\ Len(diff.hunks) = 2
  /\ diff = first
  /\ content # entry

----------------------------------------------------------------------------
(* C15: no step of UnifiedDiff.apply, strict or fuzzy, succeeding or       *)
(* failing, changes the diff (its files, its hunks and their fields), and  *)
(* the loop does not change the hunks it iterates over; so every call,     *)
(* also one that follows an earlier call, ends as a call of the diff on    *)
(* the buffer it was given.                                                *)
C15_DiffUnchanged ==
  [][ /\ diff' = diff
      /\ pc = "loop" => hunks' = hunks
      /\ (pc = "loop" /\ pc' \in {"returned", "raised"}) =>
            DiffApply(diff, entry, strict) = [exc |-> exc', content |-> content']
      /\ (pc' = "raised" /\ pc # "loop") =>
            DiffApply(diff, entry', strict) = [exc |-> exc', content |-> content'] ]_vars

(* A second fuzzy call of a diff whose hunks were relocated.               *)
C15_Witness ==
  /\ ~strict
  /\ calls = 2
  /\ pc = "returned"
  /\ hunks # diff.hunks
  /\ content # entry

----------------------------------------------------------------------------
----------------------------------------------------------------------------
(* The start index the claim names, and the one of the amended claim.      *)
ClaimedStart(h, off) ==
  IF h.from_line = 0 /\ h.from_count = 0 THEN off ELSE h.from_line - 1 + off

EffectiveStart(h, off) ==
  IF h.from_count > 0 THEN h.from_line - 1 + off ELSE h.from_line + off

(* The step that applies h at offset off to cont works on the from_count   *)
(* lines from index s on: it raises exactly when before is not there, and  *)
(* otherwise replaces exactly these lines by after.                        *)
WorksOnSlice(h, cont, s, raised, cont2) ==
  LET at == Min(s, Len(cont))
  IN /\ raised <=> ~OccursAt(cont, h.before, at)
     /\ ~raised => cont2 = ReplaceAt(cont, at, h.from_count, h.after)

(* C20 as stated: start is from_line - 1 + offset, except for from_line =  *)
(* 0 with from_count = 0.                                                  *)
C20_StartIsFromLineMinusOne ==
  [][ (pc = "loop" /\ i < Len(hunks)
         /\ CountsAgree(hunks[i + 1])
         /\ ClaimedStart(hunks[i + 1], offset) >= 0
         /\ EffectiveStart(hunks[i + 1], offset) >= 0) =>
        WorksOnSlice(hunks[i + 1], content, ClaimedStart(hunks[i + 1], offset),
                     pc' = "raised", content') ]_vars

(* C20 amended: start is from_line - 1 + offset for a hunk with from_count *)
(* > 0 and from_line + offset for every pure insertion (from_count = 0):   *)
(* the insertion goes after line from_line.  (For a start that is not      *)
(* negative; a start beyond the end of the buffer acts at its end.)        *)
C20_StartAfterLineForInsertion ==
  [][ (pc = "loop" /\ i < Len(hunks)
         /\ CountsAgree(hunks[i + 1])
         /\ EffectiveStart(hunks[i + 1], offset) >= 0) =>
        WorksOnSlice(hunks[i + 1], content, EffectiveStart(hunks[i + 1], offset),
                     pc' = "raised", content') ]_vars

(* A pure insertion with from_line >= 1 applied to a buffer in which the   *)
(* two start indices give different results.                               *)
C20_Witness ==
  /\ strict
  /\ pc = "returned"
  /\ calls = 1
  /\ Len(diff.hunks) = 1
  /\ diff.hunks[1].from_count = 0
  /\ diff.hunks[1].from_line >= 1
  /\ diff.hunks[1].from_line <= Len(entry)
  /\ content = ReplaceAt(entry, diff.hunks[1].from_line, 0, diff.hunks[1].after)
  /\ content # ReplaceAt(entry, diff.hunks[1].from_line - 1, 0, diff.hunks[1].after)

----------------------------------------------------------------------------
(* RateLimiter (src/hslu/dlm03/util/ratelimit.py).  Threads call acquire;  *)
(* the clock is time.monotonic() in seconds and advances in steps of       *)
(* TickSeconds.  _rpm is a float: rl_rpm2 counts it in halves, so          *)
(* len(_calls) < _rpm is 2 * Len(rl_calls) < rl_rpm2.                      *)

Window == 60          \* the 60 seconds of lines 39 and 46
TickSeconds == 20     \* the clock advances in steps of this many seconds
MaxTicks == 4         \* clock steps taken
MaxAcquires == 2      \* acquire() calls per thread
MaxRpm2 == 3          \* largest _rpm, in halves

(* Lines 39-40: drop the leading grant times that are 60 s old or older.   *)
RECURSIVE DropExpired(_, _)
DropExpired(q, current_time) ==
  IF q # <<>> /\ q[1] <= current_time - Window
  THEN DropExpired(Tail(q), current_time)
  ELSE q

InitRate ==
  /\ PatchIdle
  /\ RateIdle
  /\ rl_rpm2 \in 1..MaxRpm2
  /\ ToolsIdle /\ allowed = AllowAll

(* A thread calls acquire() and enters the while loop.                     *)
AcquireCall(t) ==
  /\ tpc[t] = "idle"
  /\ started[t] < MaxAcquires
  /\ started' = [started EXCEPT ![t] = @ + 1]
  /\ tpc' = [tpc EXCEPT ![t] = "loop"]
  /\ UNCHANGED <<now, rl_calls, rl_lock, rl_rpm2, wake, grants,
               diff, pc, exc, applyVars, parseVars, toolVars>>

(* Line 36: with self._lock, entered once the lock is free.                *)
TakeLock(t) ==
  /\ tpc[t] = "loop"
  /\ rl_lock = 0
  /\ rl_lock' = t
  /\ tpc' = [tpc EXCEPT ![t] = "locked"]
  /\ UNCHANGED <<now, rl_calls, rl_rpm2, wake, started, grants,
               diff, pc, exc, applyVars, parseVars, toolVars>>

(* Lines 37-46, under the lock: read the clock, drop the expired grants,   *)
(* then either record a grant and return, or compute time_to_wait; the     *)
(* lock is released on leaving the with block.                             *)
Critical(t) ==
  /\ tpc[t] = "locked"
  /\ rl_lock = t
  /\ LET current_time == now
         live == DropExpired(rl_calls, current_time)
     IN IF 2 * Len(live) < rl_rpm2
        THEN /\ rl_calls' = Append(live, current_time)
             /\ grants' = Append(grants, current_time)
             /\ tpc' = [tpc EXCEPT ![t] = "idle"]
             /\ wake' = wake
        ELSE /\ rl_calls' = live
             /\ grants' = grants
             /\ wake' = [wake EXCEPT ![t] = live[1] - (current_time - Window)]
             /\ tpc' = [tpc EXCEPT ![t] =
                          IF live[1] - (current_time - Window) > 0
                          THEN "waiting" ELSE "loop"]
  /\ rl_lock' = 0
  /\ UNCHANGED <<now, rl_rpm2, started,
               diff, pc, exc, applyVars, parseVars, toolVars>>

(* Line 49: time.sleep(time_to_wait) starts; wake holds time_to_wait and   *)
(* then the time at which the sleep is over.                               *)
Sleep(t) ==
  /\ tpc[t] = "waiting"
  /\ wake' = [wake EXCEPT ![t] = now + @]
  /\ tpc' = [tpc EXCEPT ![t] = "sleeping"]
  /\ UNCHANGED <<now, rl_calls, rl_lock, rl_rpm2, started, grants,
               diff, pc, exc, applyVars, parseVars, toolVars>>

(* The sleep is over; the while loop starts again.                         *)
Wake(t) ==
  /\ tpc[t] = "sleeping"
  /\ now >= wake[t]
  /\ tpc' = [tpc EXCEPT ![t] = "loop"]
  /\ UNCHANGED <<now, rl_calls, rl_lock, rl_rpm2, wake, started, grants,
               diff, pc, exc, applyVars, parseVars, toolVars>>

(* Time passes.                                                            *)
Tick ==
  /\ now < MaxTicks * TickSeconds
  /\ now' = now + TickSeconds
  /\ UNCHANGED <<rl_calls, rl_lock, rl_rpm2, tpc, wake, started, grants,
               diff, pc, exc, applyVars, parseVars, toolVars>>

NextRate ==
  \/ \E t \in Threads : AcquireCall(t)
  \/ \E t \in Threads : TakeLock(t)
  \/ \E t \in Threads : Critical(t)
  \/ \E t \in Threads : Sleep(t)
  \/ \E t \in Threads : Wake(t)
  \/ Tick

SpecRate == InitRate /\ [][NextRate]_vars

(* Grants whose time lies in the 60 seconds that start at time w.          *)
GrantsInWindow(w) ==
  {j \in 1..Len(grants) : w <= grants[j] /\ grants[j] < w + Window}

(* C18: in every window of 60 seconds (it is enough to look at the windows *)
(* that start at a grant) the number of grants is at most rpm.             *)
C18_WindowBound ==
  \A k \in 1..Len(grants) :
    2 * Cardinality(GrantsInWindow(grants[k])) <= rl_rpm2

----------------------------------------------------------------------------
(* ToolManager (src/hslu/dlm03/common/tools.py).  The MCP server is the    *)
(* environment: it chooses the tools it offers and the content blocks of   *)
(* a call's result.                                                        *)

MaxToolCalls == 2     \* calls of tools() and __call__ on one manager
MaxBlocks == 1        \* content blocks in one call_tool result

ToolNames == {"read", "write"}

(* The kinds of content block: a text block, a resource of mime type       *)
(* text/plain, a resource of another mime type, a block of another type.   *)
BlockKinds == {"text", "text/plain", "application/json", "image"}
BlockLists == SeqUpTo(BlockKinds, MaxBlocks)

(* tool_call_result_from_mcp(call_id, content) succeeds for these kinds    *)
(* and raises ValueError for the others.                                   *)
Convertible(kind) == kind \in {"text", "text/plain"}

ToolMessage(call_id, kind) ==
  [role |-> "tool", call_id |-> call_id, kind |-> "tool_result",
   content |-> <<kind>>]

(* Lines 107-108: the message that answers a call of a tool not allowed.   *)
CannotCallMessage(call_id, tool_name) ==
  [role |-> "user", call_id |-> call_id, kind |-> "function_call_output",
   content |-> <<"Cannot call tool", tool_name>>]

InitTools ==
  /\ PatchIdle
  /\ RateIdle /\ rl_rpm2 = 2
  /\ ToolsIdle
  /\ allowed \in {AllowAll} \cup {AllowOnly(S) : S \in SUBSET ToolNames}

(* ToolManager.tools(): opens a session, lists the server's tools and      *)
(* filters them when _allowed_tools is truthy (not None and not empty).    *)
ListTools(offered) ==
  /\ tcalls < MaxToolCalls
  /\ tcalls' = tcalls + 1
  /\ sessions' = sessions + 1
  /\ listed' = IF ~allowed.is_none /\ allowed.names # {}
               THEN offered \cap allowed.names
               ELSE offered
  /\ exc' = NoExc
  /\ UNCHANGED <<allowed, forwarded, outputs, rateVars,
                 diff, pc, applyVars, parseVars>>

(* __call__ whose allow-list test is the truthiness test of tools().       *)
CallTool_TruthyAllowList(tool_name, args_ok, blocks) ==
  /\ tcalls < MaxToolCalls
  /\ tcalls' = tcalls + 1
  /\ IF ~allowed.is_none /\ allowed.names # {} /\ tool_name \notin allowed.names
     THEN /\ outputs' = <<CannotCallMessage(tcalls + 1, tool_name)>>
          /\ exc' = NoExc
          /\ UNCHANGED <<sessions, forwarded>>
     ELSE /\ sessions' = sessions + 1
          /\ IF ~args_ok
             THEN /\ exc' = Raise("JSONDecodeError", "invalid arguments")
                  /\ outputs' = <<>>
                  /\ forwarded' = forwarded
             ELSE /\ forwarded' = Append(forwarded, tool_name)
                  /\ IF \E k \in 1..Len(blocks) : ~Convertible(blocks[k])
                     THEN /\ exc' = Raise("ValueError", "invalid content")
                          /\ outputs' = <<>>
                     ELSE /\ exc' = NoExc
                          /\ outputs' = [k \in 1..Len(blocks) |->
                                           ToolMessage(tcalls + 1, blocks[k])]
  /\ UNCHANGED <<allowed, listed, rateVars, diff, pc, applyVars, parseVars>>

(* ToolManager.__call__(tool_call), lines 97-119: tool_name is the name of *)
(* the called function, args_ok tells whether json.loads accepts the       *)
(* arguments, blocks is the content of the server's result.                *)
CallTool(tool_name, args_ok, blocks) ==
  /\ tcalls < MaxToolCalls
  /\ tcalls' = tcalls + 1
  /\ IF ~allowed.is_none /\ tool_name \notin allowed.names
     THEN /\ outputs' = <<CannotCallMessage(tcalls + 1, tool_name)>>
          /\ exc' = NoExc
          /\ UNCHANGED <<sessions, forwarded>>
     ELSE /\ sessions' = sessions + 1
          /\ IF ~args_ok
             THEN /\ exc' = Raise("JSONDecodeError", "invalid arguments")
                  /\ outputs' = <<>>
                  /\ forwarded' = forwarded
             ELSE /\ forwarded' = Append(forwarded, tool_name)
                  /\ IF \E k \in 1..Len(blocks) : ~Convertible(blocks[k])
                     THEN /\ exc' = Raise("ValueError", "invalid content")
                          /\ outputs' = <<>>
                     ELSE /\ exc' = NoExc
                          /\ outputs' = [k \in 1..Len(blocks) |->
                                           ToolMessage(tcalls + 1, blocks[k])]
  /\ UNCHANGED <<allowed, listed, rateVars, diff, pc, applyVars, parseVars>>

NextTools ==
  \/ \E offered \in SUBSET ToolNames : ListTools(offered)
  \/ \E tool_name \in ToolNames, args_ok \in BOOLEAN, blocks \in BlockLists :
        CallTool(tool_name, args_ok, blocks)

SpecTools == InitTools /\ [][NextTools]_vars

(* C19: a call of a tool whose name is not in a given allow-list opens no  *)
(* session, invokes no call_tool and returns exactly one 'Cannot call      *)
(* tool' message; every other call (any call when allowed_tools is None)   *)
(* goes to the session: a session is opened, call_tool is invoked with     *)
(* the name once the arguments decode, and no 'Cannot call tool' message   *)
(* is returned.                                                            *)
C19_AllowList ==
  [][ \A tool_name \in ToolNames, args_ok \in BOOLEAN, blocks \in BlockLists :
        CallTool(tool_name, args_ok, blocks) =>
          IF ~allowed.is_none /\ tool_name \notin allowed.names
          THEN /\ sessions' = sessions
               /\ forwarded' = forwarded
               /\ exc' = NoExc
               /\ Len(outputs') = 1
               /\ outputs'[1].content = <<"Cannot call tool", tool_name>>
          ELSE /\ sessions' = sessions + 1
               /\ args_ok => forwarded' = Append(forwarded, tool_name)
               /\ \A k \in 1..Len(outputs') :
                    outputs'[k].content[1] # "Cannot call tool" ]_vars

(* An empty allow-list has refused a call, after a call that an allow-list *)
(* would have let through cannot have happened: nothing reached a session. *)
C19_Witness ==
  /\ ~allowed.is_none
  /\ allowed.names = {}
  /\ tcalls = 2
  /\ sessions = 0
  /\ forwarded = <<>>
  /\ Len(outputs) = 1
  /\ outputs[1].content[1] = "Cannot call tool"

----------------------------------------------------------------------------
----------------------------------------------------------------------------
(* C22: when the finds of a fuzzy call succeed, each returned hunk has     *)
(* from_line = m + 1 for the start m of its match in the buffer (where     *)
(* before does occur), to_line shifted by as much as from_line, the same   *)
(* before and after, and it verifies against the same buffer at offset 0.  *)
C22_FindResult ==
  [][ (~strict /\ pc \in {"ready", "returned"} /\ pc' = "loop") =>
        /\ Len(hunks') = Len(diff.hunks)
        /\ \A k \in 1..Len(diff.hunks) :
             LET h == diff.hunks[k]
                 g == hunks'[k]
                 m == FindLongestMatch(content, h.before).a
             IN /\ OccursAt(content, h.before, m)
                /\ g.from_line = m + 1
                /\ g.to_line - h.to_line = g.from_line - h.from_line
                /\ g.before = h.before
                /\ g.after = h.after
                /\ HunkVerify(g, content, 0) = NoExc ]_vars

(* A found hunk that was moved and whose to_line differs from its          *)
(* from_line.                                                              *)
C22_Witness ==
  /\ ~strict
  /\ pc = "loop"
  /\ calls = 1
  /\ i = 0
  /\ Len(diff.hunks) = 1
  /\ diff.hunks[1].before # <<>>
  /\ diff.hunks[1].to_line # diff.hunks[1].from_line
  /\ hunks[1].from_line # diff.hunks[1].from_line
  /\ hunks[1].to_line = hunks[1].from_line + 1

----------------------------------------------------------------------------
(* C23: in a strict apply, a hunk whose start index (from_line, minus one  *)
(* when from_count > 0, plus the accumulated offset) is negative fails     *)
(* with a VerifyError and leaves the buffer as it was, instead of acting   *)
(* on positions counted from the end of the buffer.                        *)
C23_NoWrapAround ==
  [][ (strict /\ pc = "loop" /\ i < Len(hunks)
         /\ StartOf(hunks[i + 1], offset) < 0) =>
        /\ pc' = "raised"
        /\ IsVerifyError(exc')
        /\ content' = content ]_vars

----------------------------------------------------------------------------
(* C24: a fuzzy apply of a single hunk whose non-empty before occurs at    *)
(* several positions of the buffer does not raise and returns the buffer   *)
(* with the occurrence of the smallest index replaced by after, wherever   *)
(* the declared from_line points.                                          *)
C24_Precondition ==
  /\ ~strict
  /\ calls >= 1
  /\ Len(diff.hunks) = 1
  /\ diff.hunks[1].before # <<>>
  /\ Cardinality(Occurrences(entry, diff.hunks[1].before)) >= 2

C24_EarliestOccurrence ==
  C24_Precondition =>
    LET h == diff.hunks[1]
    IN /\ pc # "raised"
       /\ pc = "returned" =>
            content = ReplaceAt(entry, SetMin(Occurrences(entry, h.before)),
                                Len(h.before), h.after)

----------------------------------------------------------------------------
----------------------------------------------------------------------------
(* C26: a fuzzy call in which some hunk's before does not occur in the     *)
(* buffer as passed in raises at once; whenever relocation raises, it is   *)
(* the NotFoundError, no hunk has been applied and the buffer is as it was *)
(* passed in; and no NotFoundError arises later, between two hunks.        *)
C26_AllOrNothing ==
  [][ ~strict =>
        /\ (pc \in {"ready", "returned"}
              /\ \E k \in 1..Len(diff.hunks) :
                    Occurrences(content, diff.hunks[k].before) = {}) =>
              pc' = "raised"
        /\ (pc \in {"ready", "returned"} /\ pc' = "raised") =>
              /\ IsNotFoundError(exc')
              /\ content' = content
              /\ i' = 0
        /\ (pc = "loop" /\ pc' = "raised") => ~IsNotFoundError(exc') ]_vars

(* The first hunk is found and would change the buffer, the second hunk is *)
(* not found: nothing was applied.                                         *)
C26_Witness ==
  /\ ~strict
  /\ pc = "raised"
  /\ calls = 1
  /\ Len(diff.hunks) = 2
  /\ Occurrences(entry, diff.hunks[1].before) # {}
  /\ diff.hunks[1].after # diff.hunks[1].before
  /\ Occurrences(entry, diff.hunks[2].before) = {}
  /\ IsNotFoundError(exc)
  /\ i = 0
  /\ content = entry

----------------------------------------------------------------------------
(* C27: the hunks a fuzzy call works with have from_count = len(before)    *)
(* and to_count = len(after) with before and after as declared, so a fuzzy *)
(* call never raises one of the two count errors and its first hunk, once  *)
(* found, is applied whatever its declared counts; a strict call raises a  *)
(* count error, leaving the buffer as it is, at every hunk whose declared  *)
(* counts disagree with its lists.                                         *)
IsCountError(e) ==
  /\ e.type = "UnifiedDiffError"
  /\ e.msg \in {"expected lines before", "expected lines after"}

C27_FuzzyHidesCounts ==
  [][ /\ (~strict /\ pc \in {"ready", "returned"} /\ pc' = "loop") =>
            \A k \in 1..Len(diff.hunks) :
               /\ CountsAgree(hunks'[k])
               /\ hunks'[k].before = diff.hunks[k].before
               /\ hunks'[k].after = diff.hunks[k].after
      /\ ~strict => ~IsCountError(exc')
      /\ (~strict /\ pc = "loop" /\ i = 0 /\ i < Len(hunks)) =>
            /\ pc' = "loop"
            /\ i' = 1
            /\ Len(content') = Len(content) + Len(diff.hunks[1].after)
                                 - Len(diff.hunks[1].before)
      /\ (strict /\ pc = "loop" /\ i < Len(hunks)
            /\ ~CountsAgree(hunks[i + 1])) =>
            /\ pc' = "raised"
            /\ IsCountError(exc')
            /\ content' = content ]_vars

(* A hunk whose declared counts disagree with its lists was applied by a   *)
(* fuzzy call and changed the buffer.                                      *)
C27_Witness ==
  /\ ~strict
  /\ pc = "returned"
  /\ calls = 1
  /\ Len(diff.hunks) = 1
  /\ diff.hunks[1].from_count # Len(diff.hunks[1].before)
  /\ diff.hunks[1].to_count # Len(diff.hunks[1].after)
  /\ content # entry

----------------------------------------------------------------------------
(* The rate limiter over unbounded time, with threads that call acquire    *)
(* again and again.  The clock's origin moves with the clock: now stays 0, *)
(* a stored time t stands for "t seconds from now", and a clock step moves *)
(* every stored time back by TickSeconds.  Times of 60 seconds ago or      *)
(* earlier are kept as -Window (lines 39-40 treat them alike) and a sleep  *)
(* that is over is kept as 0; grants keeps the grants of the last 60       *)
(* seconds; started stops counting at MaxAcquires.                         *)
InitRateLive ==
  /\ PatchIdle
  /\ RateIdle
  /\ rl_rpm2 \in 2..MaxRpm2
  /\ ToolsIdle /\ allowed = AllowAll

(* A thread calls acquire(), any number of times.                          *)
AcquireAgain(t) ==
  /\ tpc[t] = "idle"
  /\ started' = [started EXCEPT ![t] = Min(@ + 1, MaxAcquires)]
  /\ tpc' = [tpc EXCEPT ![t] = "loop"]
  /\ UNCHANGED <<now, rl_calls, rl_lock, rl_rpm2, wake, grants,
               diff, pc, exc, applyVars, parseVars, toolVars>>

WithinWindow(t) == t > 0 - Window

(* Time passes.                                                            *)
TickShift ==
  /\ rl_calls' = [k \in 1..Len(rl_calls) |->
                    Max(rl_calls[k] - TickSeconds, 0 - Window)]
  /\ wake' = [t \in Threads |->
                IF tpc[t] = "sleeping" THEN Max(wake[t] - TickSeconds, 0)
                ELSE wake[t]]
  /\ grants' = SelectSeq([k \in 1..Len(grants) |-> grants[k] - TickSeconds],
                         WithinWindow)
  /\ UNCHANGED <<now, rl_lock, rl_rpm2, tpc, started,
               diff, pc, exc, applyVars, parseVars, toolVars>>

NextRateLive ==
  \/ \E t \in Threads : AcquireAgain(t)
  \/ \E t \in Threads : TakeLock(t)
  \/ \E t \in Threads : Critical(t)
  \/ \E t \in Threads : Sleep(t)
  \/ \E t \in Threads : Wake(t)
  \/ TickShift

(* Time advances, and every thread is scheduled fairly: a thread that can  *)
(* again and again take the lock does take it, and a thread that can run   *)
(* its next step runs it.                                                  *)
FairRate ==
  /\ WF_vars(TickShift)
  /\ \A t \in Threads :
       /\ SF_vars(TakeLock(t))
       /\ WF_vars(Critical(t))
       /\ WF_vars(Sleep(t))
       /\ WF_vars(Wake(t))

SpecRateLive == InitRateLive /\ [][NextRateLive]_vars /\ FairRate

(* C28: with rpm >= 1, time advancing and the threads scheduled fairly,    *)
(* every call of acquire() returns in the end, whatever the other threads  *)
(* do, and no thread holds the lock while it waits or sleeps.              *)
C28_AcquireReturns ==
  /\ \A t \in Threads : (tpc[t] # "idle") ~> (tpc[t] = "idle")
  /\ [](\A t \in Threads : tpc[t] \in {"waiting", "sleeping"} => rl_lock # t)

----------------------------------------------------------------------------
(* C29: whatever allowed_tools is, a call of a tool that the last tools()  *)
(* advertised goes to a session and is not answered with 'Cannot call      *)
(* tool', and tools() advertises every tool the server offers that         *)
(* __call__ has forwarded to a session.                                    *)
C29_AdvertisedIsAccepted ==
  [][ /\ \A tool_name \in ToolNames, args_ok \in BOOLEAN, blocks \in BlockLists :
           (CallTool(tool_name, args_ok, blocks) /\ tool_name \in listed) =>
              /\ sessions' = sessions + 1
              /\ \A k \in 1..Len(outputs') :
                   outputs'[k].content[1] # "Cannot call tool"
      /\ \A offered \in SUBSET ToolNames :
           ListTools(offered) =>
              \A n \in offered : n \in Elems(forwarded) => n \in listed' ]_vars

====
